---------------------------- MODULE Spec2Model ----------------------------
(***************************************************************************)
(* Model of the exam generator service: the document extractor             *)
(* (FileService.read_file and its per-format readers), the request         *)
(* orchestrator (generate_exam, download_exam) and the export renderer     *)
(* (FileService.create_file_stream).                                       *)
(*                                                                         *)
(* Text is a sequence of Unicode code points, a byte buffer a sequence of  *)
(* numbers 0..255.  The service keeps no state between requests; the state *)
(* of the model is the last call (operation, arguments, outcome) and the   *)
(* temporary files that exist on disk.                                     *)
(***************************************************************************)
EXTENDS Integers, Sequences, FiniteSets, TLC

VARIABLES op, arg, res, tmpfiles

vars == <<op, arg, res, tmpfiles>>

(***************************************************************************)
(* Bounds of the model.                                                    *)
(***************************************************************************)
MaxBytes == 3
MaxChars == 2
MaxPages == 3
MaxParas == 2
MaxQuestions == 2
MaxOptions == 27

(***************************************************************************)
(* Text primitives (Python str).                                           *)
(***************************************************************************)
SetMin(S) == CHOOSE x \in S : \A y \in S : x <= y

SetMax(S) == CHOOSE x \in S : \A y \in S : x >= y

\* str.isspace() of one character: the code points Python treats as whitespace.
IsSpace(c) ==
    \/ c \in 9..13
    \/ c \in 28..32
    \/ c \in {133, 160, 5760}
    \/ c \in 8192..8202
    \/ c \in {8232, 8233, 8239, 8287, 12288}

\* str.strip(): leading and trailing whitespace removed.
Strip(s) ==
    LET keep == {i \in 1..Len(s) : ~IsSpace(s[i])}
    IN  IF keep = {} THEN <<>> ELSE SubSeq(s, SetMin(keep), SetMax(keep))

\* str.lower() on the ASCII letters.
Lower(s) == [i \in 1..Len(s) |-> IF s[i] \in 65..90 THEN s[i] + 32 ELSE s[i]]

\* sep.join(parts)
RECURSIVE Join(_, _)
Join(parts, sep) ==
    IF parts = <<>> THEN <<>>
    ELSE IF Len(parts) = 1 THEN parts[1]
    ELSE parts[1] \o sep \o Join(Tail(parts), sep)

\* s.endswith(suffix)
EndsWith(s, suffix) ==
    /\ Len(suffix) <= Len(s)
    /\ SubSeq(s, Len(s) - Len(suffix) + 1, Len(s)) = suffix

\* s.split(".")[-1]: what follows the last dot (the whole of s without one).
LastSegment(s) ==
    LET dots == {i \in 1..Len(s) : s[i] = 46}
    IN  IF dots = {} THEN s ELSE SubSeq(s, SetMax(dots) + 1, Len(s))

(***************************************************************************)
(* Outcomes of a call: a returned text or a raised exception.              *)
(***************************************************************************)
Ret(text) ==
    [raised |-> FALSE, exc |-> "", code |-> 0, detail |-> "", text |-> text]

Http(code, detail) ==
    [raised |-> TRUE, exc |-> "HTTPException", code |-> code, detail |-> detail,
     text |-> <<>>]

Exc(name) ==
    [raised |-> TRUE, exc |-> name, code |-> 0, detail |-> "", text |-> <<>>]

(***************************************************************************)
(* bytes.decode(encoding) for the encodings of _read_txt_file.             *)
(***************************************************************************)
DecodeOk(text) == [ok |-> TRUE, text |-> text]

DecodeFail == [ok |-> FALSE, text |-> <<>>]

IsCont(b) == b \in 128..191

RECURSIVE Utf8Decode(_)
Utf8Decode(b) ==
    IF b = <<>> THEN DecodeOk(<<>>)
    ELSE
      LET n  == Len(b)
          b0 == b[1]
          width == IF b0 < 128 THEN 1
                   ELSE IF b0 \in 194..223 THEN 2
                   ELSE IF b0 \in 224..239 THEN 3
                   ELSE IF b0 \in 240..244 THEN 4
                   ELSE 0
          wellFormed == /\ width > 0
                        /\ n >= width
                        /\ \A i \in 2..width : IsCont(b[i])
          cp == IF width = 1 THEN b0
                ELSE IF width = 2 THEN (b0 - 192) * 64 + (b[2] - 128)
                ELSE IF width = 3
                  THEN (b0 - 224) * 4096 + (b[2] - 128) * 64 + (b[3] - 128)
                ELSE (b0 - 240) * 262144 + (b[2] - 128) * 4096
                     + (b[3] - 128) * 64 + (b[4] - 128)
          valid == /\ wellFormed
                   /\ width = 3 => (cp >= 2048 /\ cp \notin 55296..57343)
                   /\ width = 4 => cp \in 65536..1114111
      IN  IF ~valid THEN DecodeFail
          ELSE LET rest == Utf8Decode(SubSeq(b, width + 1, n))
               IN  IF rest.ok THEN DecodeOk(<<cp>> \o rest.text) ELSE DecodeFail

\* latin-1 and iso-8859-1 name the same codec: byte n is code point n.
Latin1Decode(b) == DecodeOk(b)

\* The code points of cp1252 bytes 0x80..0x9F; 0 marks a byte the codec rejects
\* (0x81, 0x8D, 0x8F, 0x90, 0x9D).
Cp1252High ==
    <<8364, 0, 8218, 402, 8222, 8230, 8224, 8225, 710, 8240, 352, 8249, 338, 0,
      381, 0, 0, 8216, 8217, 8220, 8221, 8226, 8211, 8212, 732, 8482, 353, 8250,
      339, 0, 382, 376>>

Cp1252Char(byte) == IF byte \in 128..159 THEN Cp1252High[byte - 127] ELSE byte

Cp1252Decode(b) ==
    IF \E i \in 1..Len(b) : Cp1252Char(b[i]) = 0 THEN DecodeFail
    ELSE DecodeOk([i \in 1..Len(b) |-> Cp1252Char(b[i])])

Decode(encoding, b) ==
    CASE encoding = "utf-8"      -> Utf8Decode(b)
      [] encoding = "latin-1"    -> Latin1Decode(b)
      [] encoding = "cp1252"     -> Cp1252Decode(b)
      [] encoding = "iso-8859-1" -> Latin1Decode(b)

(***************************************************************************)
(* str.encode(encoding): how a caller produces a buffer in a charset.      *)
(***************************************************************************)
Utf8EncodeChar(c) ==
    IF c < 128 THEN <<c>>
    ELSE IF c < 2048 THEN <<192 + (c \div 64), 128 + (c % 64)>>
    ELSE IF c < 65536
      THEN <<224 + (c \div 4096), 128 + ((c \div 64) % 64), 128 + (c % 64)>>
    ELSE <<240 + (c \div 262144), 128 + ((c \div 4096) % 64),
           128 + ((c \div 64) % 64), 128 + (c % 64)>>

RECURSIVE Utf8Encode(_)
Utf8Encode(s) ==
    IF s = <<>> THEN <<>> ELSE Utf8EncodeChar(Head(s)) \o Utf8Encode(Tail(s))

Cp1252Byte(c) ==
    IF c < 128 \/ c \in 160..255 THEN c
    ELSE IF c # 0 /\ \E k \in 1..32 : Cp1252High[k] = c
      THEN 127 + (CHOOSE k \in 1..32 : Cp1252High[k] = c)
    ELSE -1

Encodable(encoding, s) ==
    CASE encoding = "utf-8"      -> \A i \in 1..Len(s) : s[i] \notin 55296..57343
      [] encoding = "latin-1"    -> \A i \in 1..Len(s) : s[i] < 256
      [] encoding = "cp1252"     -> \A i \in 1..Len(s) : Cp1252Byte(s[i]) >= 0
      [] encoding = "iso-8859-1" -> \A i \in 1..Len(s) : s[i] < 256

Encode(encoding, s) ==
    CASE encoding = "utf-8"      -> Utf8Encode(s)
      [] encoding = "latin-1"    -> s
      [] encoding = "cp1252"     -> [i \in 1..Len(s) |-> Cp1252Byte(s[i])]
      [] encoding = "iso-8859-1" -> s

(***************************************************************************)
(* FileService._read_txt_file                                              *)
(***************************************************************************)
Encodings == <<"utf-8", "latin-1", "cp1252", "iso-8859-1">>

\* A faulty variant of TryEncodings: the first successful decode is returned even when
\* it is blank.
RECURSIVE TryEncodings_NoBlankCheck(_, _)
TryEncodings_NoBlankCheck(content, encodings) ==
    IF encodings = <<>> THEN Http(400, "Could not decode text file")
    ELSE LET d == Decode(Head(encodings), content)
         IN  IF d.ok THEN Ret(d.text)
             ELSE TryEncodings_NoBlankCheck(content, Tail(encodings))

RECURSIVE TryEncodings(_, _)
TryEncodings(content, encodings) ==
    IF encodings = <<>> THEN Http(400, "Could not decode text file")
    ELSE LET d == Decode(Head(encodings), content)
         IN  IF d.ok /\ Strip(d.text) # <<>> THEN Ret(d.text)
             ELSE TryEncodings(content, Tail(encodings))

ReadTxtFile(file) == TryEncodings(file.content, Encodings)

(***************************************************************************)
(* FileService._read_docx_file                                             *)
(*                                                                         *)
(* An upload carries, beside its bytes, what the document parsers make of  *)
(* them: docx = [ok, paragraphs] is python-docx's reading (ok = FALSE: the *)
(* parser raises), pdf = [ok, pages] is PyPDF2's.                          *)
(***************************************************************************)
\* tempfile.NamedTemporaryFile: a name no existing file has.
FreshTmp(files) == CHOOSE n \in 1..(Cardinality(files) + 1) : n \notin files

\* A faulty variant of UnlinkTmp: the temporary file is left on disk.
UnlinkTmp_Skip(files, temp_file) == files

\* The finally block: os.unlink of the temporary file when it still exists.
UnlinkTmp(files, temp_file) == files \ {temp_file}

\* The body of the try block, run with the temporary file on disk.
DocxBody(file) ==
    IF ~file.docx.ok THEN Exc("PackageNotFoundError")
    ELSE LET text_content == Join(file.docx.paragraphs, <<10>>)
         IN  IF Strip(text_content) = <<>>
               THEN Http(400, "No text content found in DOCX file")
             ELSE Ret(text_content)

ReadDocxFile(file, files) ==
    LET temp_file == FreshTmp(files)
        created   == files \cup {temp_file}
    IN  [out       |-> DocxBody(file),
         temp_file |-> temp_file,
         files     |-> UnlinkTmp(created, temp_file)]

(***************************************************************************)
(* FileService._read_pdf_file                                              *)
(***************************************************************************)
\* A faulty variant of KeepPage: whitespace-only pages are skipped as well.
KeepPage_NonBlank(page_text) == Strip(page_text) # <<>>

\* if page_text: only the pages whose extracted text is non-empty.
KeepPage(page_text) == page_text # <<>>

TextPages(pages) == SelectSeq(pages, KeepPage)

ReadPdfFile(file) ==
    IF ~file.pdf.ok THEN Http(500, "Failed to process PDF file")
    ELSE IF Len(file.pdf.pages) = 0 THEN Http(400, "PDF file has no pages")
    ELSE LET full_text == Join(TextPages(file.pdf.pages), <<10>>)
         IN  IF Strip(full_text) = <<>>
               THEN Http(400, "No text content found in PDF")
             ELSE Ret(full_text)

(***************************************************************************)
(* FileService.read_file                                                   *)
(***************************************************************************)
\* The readers the class defines; read_file also names _read_doc_file, which
\* the class does not define.
DefinedReaders == {"txt", "docx", "pdf"}

\* The if/elif chain on the extension: the reader it names, "" for the else.
Dispatch(extension) ==
    CASE extension = <<116, 120, 116>>      -> "txt"
      [] extension = <<100, 111, 99, 120>>  -> "docx"
      [] extension = <<100, 111, 99>>       -> "doc"
      [] extension = <<112, 100, 102>>      -> "pdf"
      [] OTHER                              -> ""

\* except HTTPException: raise / except Exception: 500.
WrapProcessing(outcome) ==
    IF outcome.raised /\ outcome.exc # "HTTPException"
      THEN Http(500, "Error processing file")
    ELSE outcome

\* "." in filename
HasDot(s) == \E i \in 1..Len(s) : s[i] = 46

\* A faulty variant of ClosedByFinally: the file is closed only when a reader returns.
ClosedOnSuccessOnly(outcome) == ~outcome.raised

\* finally: await file.close(), whatever the outcome of the try block.
ClosedByFinally(outcome) == TRUE

\* A reader that touches no temporary file.
NoTmp(outcome, files) == [out |-> outcome, temp_file |-> 0, files |-> files]

\* A rejection raised before the try block is entered.
Rejected(outcome, files) ==
    [out |-> outcome, files |-> files, closed |-> FALSE, reader |-> "",
     temp_file |-> 0]

\* Lines 105-110: what leaves the try block, with the file closed.
LeaveTry(target, inner) ==
    [out       |-> WrapProcessing(inner.out),
     files     |-> inner.files,
     closed    |-> ClosedByFinally(inner.out),
     reader    |-> IF target \in DefinedReaders THEN target ELSE "",
     temp_file |-> inner.temp_file]

\* Lines 91-103: the call the chain makes for a target.
CallReader(target, file, files) ==
    CASE target = "txt"  -> NoTmp(ReadTxtFile(file), files)
      [] target = "docx" -> ReadDocxFile(file, files)
      [] target = "pdf"  -> NoTmp(ReadPdfFile(file), files)
      [] target = "doc"  -> NoTmp(Exc("AttributeError"), files)
      [] OTHER -> NoTmp(Http(400, "Unsupported file format"), files)

DispatchAndRead(target, file, files) ==
    LeaveTry(target, CallReader(target, file, files))

ReadFile(file, files) ==
    IF file.filename = <<>>
      THEN Rejected(Http(400, "No file provided"), files)
    ELSE IF ~HasDot(Lower(file.filename))
      THEN Rejected(Http(400, "File must have an extension"), files)
    ELSE DispatchAndRead(Dispatch(LastSegment(Lower(file.filename))), file,
                         files)

(***************************************************************************)
(* Schema contract (app/schemas/exam.py): a parsed payload is the set of   *)
(* top-level fields it carries and its questions, each a type label, a     *)
(* difficulty and the set of fields it carries.                            *)
(***************************************************************************)
QuestionTypes == {"Multiple Choice", "True/False", "Short Answer", "Essay"}

QuestionDifficulties == {"Easy", "Medium", "Hard"}

\* The fields Exam requires (id is Optional).
ExamRequired ==
    {"exam_title", "total_questions", "difficulty",
     "estimated_completion_minutes", "question_types", "questions"}

ExamFields == ExamRequired \cup {"id"}

\* QuestionBase, beside type and difficulty.
QuestionBaseFields == {"id", "question"}

VariantFields(type) ==
    CASE type = "Multiple Choice" -> {"options", "correct_answer", "explanation"}
      [] type = "True/False"      -> {"correct_answer", "explanation"}
      [] type = "Short Answer"    -> {"sample_answer"}
      [] type = "Essay"           -> {"guidelines"}
      [] OTHER                    -> {}

QuestionValid(q) ==
    /\ q.type \in QuestionTypes
    /\ q.difficulty \in QuestionDifficulties
    /\ (QuestionBaseFields \cup VariantFields(q.type)) \subseteq q.fields

\* Whether Exam.model_validate accepts the payload.
SchemaValid(p) ==
    /\ ExamRequired \subseteq p.fields
    /\ \A i \in 1..Len(p.questions) : QuestionValid(p.questions[i])

\* The Exam model_validate builds: the declared fields, extras dropped.
ModelValidate(p) ==
    [is_none   |-> FALSE,
     fields    |-> p.fields \cap ExamFields,
     questions |-> [i \in 1..Len(p.questions) |->
                      [type       |-> p.questions[i].type,
                       difficulty |-> p.questions[i].difficulty,
                       fields     |-> p.questions[i].fields \cap
                                      (QuestionBaseFields \cup
                                       VariantFields(p.questions[i].type))]]]

NoPayload == [is_none |-> TRUE, fields |-> {}, questions |-> <<>>]

\* not gemini_response.parsed: None, or a payload with no field at all.
Falsy(p) == p.is_none \/ p.fields = {}

(***************************************************************************)
(* GeminiService.generate_exam                                             *)
(*                                                                         *)
(* question_types is what json.loads made of the form field: "strings" (a  *)
(* list of strings) or "not_strings" (valid JSON that build_prompt cannot  *)
(* join).  ai is what the provider does when called.                       *)
(***************************************************************************)
ServiceGenerateExam(question_types, ai) ==
    IF question_types # "strings"
      THEN [out |-> Exc("RuntimeError"), parsed |-> NoPayload,
            api_called |-> FALSE]
    ELSE IF ai.kind # "response"
      THEN [out |-> Exc("RuntimeError"), parsed |-> NoPayload,
            api_called |-> TRUE]
    ELSE [out |-> Ret(<<>>), parsed |-> ai.parsed, api_called |-> TRUE]

(***************************************************************************)
(* generate_exam (POST /v1/exams/generate)                                 *)
(***************************************************************************)
\* [filetype.value for filetype in InputFileType]: docx, pdf, txt
SupportedExtensions ==
    <<<<100, 111, 99, 120>>, <<112, 100, 102>>, <<116, 120, 116>>>>

HasSupportedSuffix(filename_lower) ==
    \E i \in 1..Len(SupportedExtensions) :
        EndsWith(filename_lower, <<46>> \o SupportedExtensions[i])

\* The progress of one request: its outcome so far, the Exam it returns, and
\* what it did on the way.
Progress(out, exam, invoked, called, files, read) ==
    [out |-> out, exam |-> exam, service_invoked |-> invoked,
     api_called |-> called, files |-> files, read |-> read]

NotRead == [done |-> FALSE, out |-> Ret(<<>>), closed |-> FALSE]

\* Lines 60-70: exactly one of the inline text and the upload.
PresenceCheck(req) ==
    IF req.exam_guide_content = <<>> /\ ~req.exam_guide_file.present
      THEN Http(400, "Either 'exam_guide_content' or 'exam_guide_file' must be provided.")
    ELSE IF req.exam_guide_content # <<>> /\ req.exam_guide_file.present
      THEN Http(400, "Provide either 'exam_guide_content' OR 'exam_guide_file', not both.")
    ELSE Ret(<<>>)

\* Lines 75-89: the upload's filename and extension.
UploadCheck(file) ==
    IF file.filename = <<>>
      THEN Http(400, "File must have a filename with extension.")
    ELSE IF ~HasSupportedSuffix(Lower(file.filename))
      THEN Http(400, "Unsupported file type.")
    ELSE Ret(<<>>)

\* A faulty variant of ContentCheck: only the empty text is rejected.
ContentCheck_NoStrip(final_content) ==
    IF final_content = <<>>
      THEN Http(400, "No content found to generate exam from.")
    ELSE Ret(final_content)

\* Line 99: if not final_content or not final_content.strip()
ContentCheck(final_content) ==
    IF final_content = <<>> \/ Strip(final_content) = <<>>
      THEN Http(400, "No content found to generate exam from.")
    ELSE Ret(final_content)

\* A faulty variant of AfterService: the parsed payload is returned without
\* Exam.model_validate.
AfterService_NoValidate(g, files, read) ==
    IF g.out.raised
      THEN Progress(g.out, NoPayload, TRUE, g.api_called, files, read)
    ELSE IF Falsy(g.parsed)
      THEN Progress(Http(500, "Gemini API returned an empty or unparseable response."),
                    NoPayload, TRUE, TRUE, files, read)
    ELSE Progress(Ret(<<>>), g.parsed, TRUE, TRUE, files, read)

\* Lines 106-128, after the service call.
AfterService(g, files, read) ==
    IF g.out.raised
      THEN Progress(g.out, NoPayload, TRUE, g.api_called, files, read)
    ELSE IF Falsy(g.parsed)
      THEN Progress(Http(500, "Gemini API returned an empty or unparseable response."),
                    NoPayload, TRUE, TRUE, files, read)
    ELSE IF ~SchemaValid(g.parsed)
      THEN Progress(Exc("ValidationError"), NoPayload, TRUE, TRUE, files, read)
    ELSE Progress(Ret(<<>>), ModelValidate(g.parsed), TRUE, TRUE, files, read)

\* Lines 106-128: the AI call, the empty check and the schema validation.
Generate(req, final_content, files, read) ==
    AfterService(ServiceGenerateExam(req.question_types, req.ai), files, read)

\* Lines 99-128, once the final content is known.
AfterContent(req, final_content, files, read) ==
    IF ContentCheck(final_content).raised
      THEN Progress(ContentCheck(final_content), NoPayload, FALSE, FALSE,
                    files, read)
    ELSE Generate(req, final_content, files, read)

ReadOf(r) == [done |-> TRUE, out |-> r.out, closed |-> r.closed]

\* Lines 91-97: a failure of read_file becomes a 500 of its own.
AfterRead(req, r) ==
    IF r.out.raised
      THEN Progress(Http(500, "Error reading file"), NoPayload, FALSE, FALSE,
                    r.files, ReadOf(r))
    ELSE AfterContent(req, r.out.text, r.files, ReadOf(r))

\* The try block of generate_exam, lines 58-128.
GenerateExamBody(req, files) ==
    IF req.question_types = "invalid_json"
      THEN Progress(Exc("JSONDecodeError"), NoPayload, FALSE, FALSE, files, NotRead)
    ELSE IF PresenceCheck(req).raised
      THEN Progress(PresenceCheck(req), NoPayload, FALSE, FALSE, files, NotRead)
    ELSE IF ~req.exam_guide_file.present
      THEN AfterContent(req, req.exam_guide_content, files, NotRead)
    ELSE IF UploadCheck(req.exam_guide_file).raised
      THEN Progress(UploadCheck(req.exam_guide_file), NoPayload, FALSE, FALSE,
                    files, NotRead)
    ELSE AfterRead(req, ReadFile(req.exam_guide_file, files))

\* The except clauses, lines 130-146: RuntimeError, then every other
\* Exception; HTTPException is an Exception and not a RuntimeError.
HandleExceptions(outcome) ==
    IF ~outcome.raised THEN outcome
    ELSE IF outcome.exc = "RuntimeError"
      THEN Http(500, "Error generating exam from Gemini")
    ELSE Http(500, "An unexpected error occurred while processing the request")

\* The response of the endpoint: 200 with the Exam, or the HTTPException.
Response(b, out) ==
    [status          |-> IF out.raised THEN out.code ELSE 200,
     detail          |-> out.detail,
     exam            |-> b.exam,
     service_invoked |-> b.service_invoked,
     api_called      |-> b.api_called,
     files           |-> b.files,
     read            |-> b.read]

Handled(b) == Response(b, HandleExceptions(b.out))

GenerateExam(req, files) == Handled(GenerateExamBody(req, files))

(***************************************************************************)
(* FileService.create_file_stream                                          *)
(*                                                                         *)
(* The buffer is the sequence of its lines, a line the sequence of the     *)
(* pieces of text written to it.  A title is the sequence of its words     *)
(* (the words joined by single spaces).                                    *)
(***************************************************************************)
\* chr(n) for n in 65..95
AsciiChars ==
    <<"A", "B", "C", "D", "E", "F", "G", "H", "I", "J", "K", "L", "M", "N", "O",
      "P", "Q", "R", "S", "T", "U", "V", "W", "X", "Y", "Z", "[", "\\", "]", "^",
      "_">>

Chr(n) == AsciiChars[n - 64]

\* sep.join(words), as pieces of one line
RECURSIVE Pieces(_, _)
Pieces(words, sep) ==
    IF words = <<>> THEN <<>>
    ELSE IF Len(words) = 1 THEN <<words[1]>>
    ELSE <<words[1], sep>> \o Pieces(Tail(words), sep)

Blank == <<>>

Rule(char) == <<char, "x40">>

\* Lines 21-26
HeaderLines(exam) ==
    << <<"Exam Title: ">> \o Pieces(exam.exam_title, " "),
       <<"Questions: ", ToString(exam.total_questions)>>,
       <<"Difficulty: ", exam.difficulty>>,
       <<"Estimated Time: ", ToString(exam.estimated_completion_minutes),
         " minutes">>,
       <<"Types: ">> \o Pieces(exam.question_types, ", "),
       Blank, Rule("="), Blank >>

\* A faulty variant of OptionLabel: the labels start one letter late.
OptionLabel_OneBased(i) == Chr(66 + i)

\* Line 33: the option at zero-based index i
OptionLabel(i) == Chr(65 + i)

\* Lines 31-33
OptionLines(q) ==
    IF q.type = "Multiple Choice"
      THEN [k \in 1..Len(q.options) |->
              <<OptionLabel(k - 1), ". ", q.options[k]>>]
    ELSE <<>>

\* Lines 29-38
QuestionLines(q) ==
    << <<"Question ", ToString(q.id), " [", q.type, " - ", q.difficulty, "]">>,
       <<q.question>>,
       Blank >>
    \o OptionLines(q)
    \o (IF q.type = "Essay" THEN <<<<"Guidelines: ", q.guidelines>>>> ELSE <<>>)
    \o <<Blank, Rule("-"), Blank>>

\* A faulty variant of AnswerLines: True/False questions get no answer line.
AnswerLines_NoTrueFalse(q) ==
    (IF q.type = "Multiple Choice"
       THEN <<<<"Question ", ToString(q.id), ": ", q.correct_answer>>>>
     ELSE <<>>)
    \o (IF q.type = "Short Answer"
          THEN <<<<"Question ", ToString(q.id), ": ", "[Sample Answer] ",
                   q.sample_answer>>>>
        ELSE <<>>)
    \o (IF q.type = "Essay"
          THEN <<<<"Question ", ToString(q.id), ": ", "Not Applicable">>>>
        ELSE <<>>)

\* Lines 42-47: the three if statements of the answer key, one after another.
AnswerLines(q) ==
    (IF q.type = "Multiple Choice" \/ q.type = "True/False"
       THEN <<<<"Question ", ToString(q.id), ": ", q.correct_answer>>>>
     ELSE <<>>)
    \o (IF q.type = "Short Answer"
          THEN <<<<"Question ", ToString(q.id), ": ", "[Sample Answer] ",
                   q.sample_answer>>>>
        ELSE <<>>)
    \o (IF q.type = "Essay"
          THEN <<<<"Question ", ToString(q.id), ": ", "Not Applicable">>>>
        ELSE <<>>)

RECURSIVE Concat(_)
Concat(blocks) ==
    IF blocks = <<>> THEN <<>> ELSE Head(blocks) \o Concat(Tail(blocks))

AnswerKeyHeading == <<Blank, <<"ANSWER KEY">>, Rule("="), Blank>>

MimeMap(file_type) ==
    CASE file_type = "txt" -> "text/plain"
      [] file_type = "doc" -> "application/msword"
      [] OTHER             -> "None"

CreateFileStream(exam, file_type) ==
    [status     |-> 200,
     lines      |-> HeaderLines(exam)
                    \o Concat([i \in 1..Len(exam.questions) |->
                                 QuestionLines(exam.questions[i])])
                    \o AnswerKeyHeading
                    \o Concat([i \in 1..Len(exam.questions) |->
                                 AnswerLines(exam.questions[i])]),
     media_type |-> MimeMap(file_type),
     filename   |-> Pieces(exam.exam_title, "_") \o <<".", file_type>>]

(***************************************************************************)
(* download_exam (POST /v1/exams/download)                                 *)
(***************************************************************************)
OutputFileTypes == {"doc", "txt"}

DownloadExam(exam, file_type) ==
    IF file_type \notin OutputFileTypes
      THEN [status |-> 400, lines |-> <<>>, media_type |-> "None",
            filename |-> <<>>]
    ELSE CreateFileStream(exam, file_type)

(***************************************************************************)
(* The inputs the calls are made with.                                     *)
(***************************************************************************)
SeqsUpTo(S, n) == UNION {[1..k -> S] : k \in 0..n}

Upload(filename, content, docx, pdf) ==
    [present |-> TRUE, filename |-> filename, content |-> content,
     docx |-> docx, pdf |-> pdf]

NoFile ==
    [present |-> FALSE, filename |-> <<>>, content |-> <<>>,
     docx |-> [ok |-> FALSE, paragraphs |-> <<>>],
     pdf |-> [ok |-> FALSE, pages |-> <<>>]]

NoDocx == [ok |-> FALSE, paragraphs |-> <<>>]

NoPdf == [ok |-> FALSE, pages |-> <<>>]

\* Bytes: space, A, 0x85, 0xA0, 0xA9, 0xC3.
ByteAlphabet == {32, 65, 133, 160, 169, 195}

ByteBuffers == SeqsUpTo(ByteAlphabet, MaxBytes)

\* Characters: space, A, U+0085, (c), A-tilde, e-acute, the ellipsis U+2026.
CharAlphabet == {32, 65, 133, 169, 195, 233, 8230}

Strings == SeqsUpTo(CharAlphabet, MaxChars)

\* "a.txt"
TxtName == <<97, 46, 116, 120, 116>>

\* "a.docx"
DocxName == <<97, 46, 100, 111, 99, 120>>

\* "a.pdf"
PdfName == <<97, 46, 112, 100, 102>>

TxtUploads == {Upload(TxtName, b, NoDocx, NoPdf) : b \in ByteBuffers}

\* Paragraph texts: empty, a space, "a".
ParaTexts == {<<>>, <<32>>, <<97>>}

DocxUploads ==
    {Upload(DocxName, <<80, 75>>, d, NoPdf) :
        d \in {NoDocx} \cup {[ok |-> TRUE, paragraphs |-> ps] :
                                ps \in SeqsUpTo(ParaTexts, MaxParas)}}

\* Page texts: empty, a space, "a", "b".
PageTexts == {<<>>, <<32>>, <<97>>, <<98>>}

PdfUploads ==
    {Upload(PdfName, <<37, 80>>, NoDocx, p) :
        p \in {NoPdf} \cup {[ok |-> TRUE, pages |-> ps] :
                               ps \in SeqsUpTo(PageTexts, MaxPages)}}

\* "", "notes", "a.txt", "A.TXT", "a.docx", "a.doc", "a.pdf", "notes.xyz",
\* "a.pdf.xyz"
Filenames ==
    { <<>>,
      <<110, 111, 116, 101, 115>>,
      TxtName,
      <<65, 46, 84, 88, 84>>,
      DocxName,
      <<97, 46, 100, 111, 99>>,
      PdfName,
      <<110, 111, 116, 101, 115, 46, 120, 121, 122>>,
      <<97, 46, 112, 100, 102, 46, 120, 121, 122>> }

\* What an upload holds: plain text ("A", nothing, a space), a document with
\* text or with blank text, a PDF with an empty page between two pages of
\* text or with one empty page.
FileBodies ==
    { [content |-> <<65>>, docx |-> NoDocx, pdf |-> NoPdf],
      [content |-> <<>>, docx |-> NoDocx, pdf |-> NoPdf],
      [content |-> <<32>>, docx |-> NoDocx, pdf |-> NoPdf],
      [content |-> <<80, 75>>, docx |-> [ok |-> TRUE, paragraphs |-> <<<<97>>>>],
       pdf |-> NoPdf],
      [content |-> <<80, 75>>, docx |-> [ok |-> TRUE, paragraphs |-> <<<<32>>>>],
       pdf |-> NoPdf],
      [content |-> <<37, 80>>, docx |-> NoDocx,
       pdf |-> [ok |-> TRUE, pages |-> <<<<97>>, <<>>, <<98>>>>]],
      [content |-> <<37, 80>>, docx |-> NoDocx,
       pdf |-> [ok |-> TRUE, pages |-> <<<<>>>>]] }

Uploads ==
    {Upload(f, b.content, b.docx, b.pdf) : f \in Filenames, b \in FileBodies}

FullQuestion(type) ==
    [type |-> type, difficulty |-> "Easy",
     fields |-> QuestionBaseFields \cup VariantFields(type)]

\* Questions of a payload: one of each variant, an unknown type, an essay
\* without guidelines, a difficulty no question may carry, an extra field.
PayloadQuestions ==
    {FullQuestion(ty) : ty \in QuestionTypes \cup {"Matching"}}
    \cup {[FullQuestion("Essay") EXCEPT !.fields = QuestionBaseFields],
          [FullQuestion("True/False") EXCEPT !.difficulty = "Mixed"],
          [FullQuestion("Short Answer") EXCEPT !.fields = @ \cup {"hint"}]}

PayloadFieldSets ==
    {ExamRequired, ExamFields, ExamRequired \ {"exam_title"},
     ExamRequired \cup {"extra"}}

Payloads ==
    {NoPayload, [is_none |-> FALSE, fields |-> {}, questions |-> <<>>]}
    \cup {[is_none |-> FALSE, fields |-> f, questions |-> qs] :
            f \in PayloadFieldSets,
            qs \in {<<>>} \cup {<<q>> : q \in PayloadQuestions}}

AiOutcomes ==
    {[kind |-> "api_error", parsed |-> NoPayload],
     [kind |-> "other_error", parsed |-> NoPayload]}
    \cup {[kind |-> "response", parsed |-> p] : p \in Payloads}

\* The inline guide text: nothing, a space, "a".
GuideTexts == {<<>>, <<32>>, <<97>>}

QuestionTypesFields == {"invalid_json", "not_strings", "strings"}

Request(question_types, exam_guide_content, exam_guide_file, ai) ==
    [question_types |-> question_types,
     exam_guide_content |-> exam_guide_content,
     exam_guide_file |-> exam_guide_file, ai |-> ai]

Question(id, type, options, correct_answer, sample_answer, guidelines) ==
    [id |-> id, type |-> type, difficulty |-> "Easy", question |-> "Q?",
     options |-> options, correct_answer |-> correct_answer,
     sample_answer |-> sample_answer, guidelines |-> guidelines]

ExamQuestions ==
    UNION {{Question(id, "Multiple Choice", <<"x", "y", "z">>, "B", "", ""),
            Question(id, "True/False", <<>>, "True", "", ""),
            Question(id, "Short Answer", <<>>, "", "s", ""),
            Question(id, "Essay", <<>>, "", "", "g")} : id \in 1..2}

\* n options, each text telling its distance from the end of the list.
Options(n) == [k \in 1..n |-> ToString(n - k)]

ExamOf(questions) ==
    [exam_title |-> <<"Mock", "Exam">>, total_questions |-> Len(questions),
     difficulty |-> "Mixed", estimated_completion_minutes |-> 30,
     question_types |-> <<"Multiple Choice", "Essay">>,
     questions |-> questions]

Exams ==
    {ExamOf(qs) : qs \in SeqsUpTo(ExamQuestions, MaxQuestions)}
    \cup {ExamOf(<<Question(1, "Multiple Choice", Options(n), "A", "", "")>>) :
            n \in 0..MaxOptions}

(***************************************************************************)
(* The state machine: one action per entry point, each a whole call, and   *)
(* the delivery of its response, after which the next call is served.      *)
(***************************************************************************)
Init ==
    /\ op = "idle"
    /\ arg = NoFile
    /\ res = Ret(<<>>)
    /\ tmpfiles = {}

GenerateExamCall ==
    /\ op = "idle"
    /\ \E question_types \in QuestionTypesFields, content \in GuideTexts,
          file \in {NoFile} \cup Uploads, ai \in AiOutcomes :
        /\ op' = "generate_exam"
        /\ arg' = Request(question_types, content, file, ai)
        /\ res' = GenerateExam(arg', tmpfiles)
        /\ tmpfiles' = res'.files

DownloadExamCall ==
    /\ op = "idle"
    /\ \E exam \in Exams, file_type \in {"txt", "doc", "pdf"} :
        /\ op' = "download_exam"
        /\ arg' = [exam |-> exam, file_type |-> file_type]
        /\ res' = DownloadExam(exam, file_type)
        /\ UNCHANGED tmpfiles

ReadFileCall ==
    /\ op = "idle"
    /\ \E file \in Uploads :
        /\ op' = "read_file"
        /\ arg' = file
        /\ res' = ReadFile(file, tmpfiles)
        /\ tmpfiles' = res'.files

ReadTxtFileCall ==
    /\ op = "idle"
    /\ \E file \in TxtUploads :
        /\ op' = "_read_txt_file"
        /\ arg' = file
        /\ res' = ReadTxtFile(file)
        /\ UNCHANGED tmpfiles

ReadDocxFileCall ==
    /\ op = "idle"
    /\ \E file \in DocxUploads :
        /\ op' = "_read_docx_file"
        /\ arg' = file
        /\ res' = ReadDocxFile(file, tmpfiles)
        /\ tmpfiles' = res'.files

ReadPdfFileCall ==
    /\ op = "idle"
    /\ \E file \in PdfUploads :
        /\ op' = "_read_pdf_file"
        /\ arg' = file
        /\ res' = ReadPdfFile(file)
        /\ UNCHANGED tmpfiles

\* The response is delivered; nothing of the call is kept but the files it
\* left on disk.
Respond ==
    /\ op # "idle"
    /\ op' = "idle"
    /\ arg' = NoFile
    /\ res' = Ret(<<>>)
    /\ UNCHANGED tmpfiles

Next ==
    \/ GenerateExamCall
    \/ DownloadExamCall
    \/ ReadFileCall
    \/ ReadTxtFileCall
    \/ ReadDocxFileCall
    \/ ReadPdfFileCall
    \/ Respond

Spec == Init /\ [][Next]_vars

(***************************************************************************)
(* Properties.                                                             *)
(***************************************************************************)
UnsupportedFormat == Http(400, "Unsupported file format")

DecodeError == Http(400, "Could not decode text file")

\* The two 400 errors of _read_pdf_file for a PDF that holds no text.
PdfEmptyContent ==
    {Http(400, "PDF file has no pages"), Http(400, "No text content found in PDF")}

\* "txt", "docx", "doc", "pdf"
ReadableExtensions ==
    {<<116, 120, 116>>, <<100, 111, 99, 120>>, <<100, 111, 99>>,
     <<112, 100, 102>>}

UppercaseLetters ==
    <<"A", "B", "C", "D", "E", "F", "G", "H", "I", "J", "K", "L", "M", "N", "O",
      "P", "Q", "R", "S", "T", "U", "V", "W", "X", "Y", "Z">>

IsUppercase(label) == \E k \in 1..Len(UppercaseLetters) : UppercaseLetters[k] = label

\* C1: in generate_exam every failure of the input checks (neither guide
\* text nor upload, both, an upload with no filename or an unsupported
\* extension, a blank final text) is answered with status 400, and status 500
\* is answered only once the AI service has been invoked.
C1_InputFailuresAre400 ==
    (op = "generate_exam" /\ arg.question_types = "strings") =>
      LET content   == arg.exam_guide_content
          file      == arg.exam_guide_file
          neither   == content = <<>> /\ ~file.present
          both      == content # <<>> /\ file.present
          badUpload == /\ file.present
                       /\ content = <<>>
                       /\ \/ file.filename = <<>>
                          \/ ~HasSupportedSuffix(Lower(file.filename))
          blank     == ~file.present /\ content # <<>> /\ Strip(content) = <<>>
      IN  /\ (neither \/ both \/ badUpload \/ blank) => res.status = 400
          /\ res.status = 500 => res.service_invoked

\* C2: generate_exam invokes the AI service only after every input check has
\* passed: exactly one of guide text and upload is given, an upload has a
\* supported extension and was read without error, and the final text is not
\* blank; with an empty guide text and no upload the request fails without
\* the service being invoked.
C2_AiOnlyAfterChecks ==
    op = "generate_exam" =>
      LET content == arg.exam_guide_content
          file    == arg.exam_guide_file
          final   == IF file.present THEN res.read.out.text ELSE content
      IN  /\ res.api_called => res.service_invoked
          /\ res.service_invoked =>
               /\ (content # <<>>) # file.present
               /\ file.present =>
                    /\ file.filename # <<>>
                    /\ HasSupportedSuffix(Lower(file.filename))
                    /\ res.read.done
                    /\ ~res.read.out.raised
               /\ ~file.present => ~res.read.done
               /\ Strip(final) # <<>>
          /\ (content = <<>> /\ ~file.present) =>
               /\ ~res.service_invoked
               /\ ~res.api_called
               /\ res.status # 200

C2_Witness ==
    /\ op = "generate_exam"
    /\ res.service_invoked
    /\ res.api_called
    /\ arg.exam_guide_file.present
    /\ res.read.out.text = <<97, 10, 98>>

\* C3: generate_exam answers 200 with an Exam only when the AI call returned,
\* its parsed payload is not empty and the payload passed Exam.model_validate
\* (the Exam is the validated payload); when the service was invoked and the
\* call raised, the payload was empty or validation failed, the answer is 500
\* and carries no Exam.
C3_ExamOnlyWhenValidated ==
    op = "generate_exam" =>
      LET ai   == arg.ai
          good == /\ ai.kind = "response"
                  /\ ~ai.parsed.is_none
                  /\ ai.parsed.fields # {}
                  /\ ExamRequired \subseteq ai.parsed.fields
                  /\ \A i \in 1..Len(ai.parsed.questions) :
                        QuestionValid(ai.parsed.questions[i])
      IN  /\ res.status = 200 =>
               /\ res.service_invoked /\ res.api_called
               /\ good
               /\ res.exam = ModelValidate(ai.parsed)
          /\ (res.service_invoked /\ ~good) =>
               /\ res.status = 500
               /\ res.exam = NoPayload
          /\ res.status # 200 => res.exam = NoPayload

C3_Witness ==
    /\ op = "generate_exam"
    /\ res.status = 200
    /\ "extra" \in arg.ai.parsed.fields
    /\ Len(res.exam.questions) = 1
    /\ res.exam.questions[1].type = "Short Answer"
    /\ "hint" \notin res.exam.questions[1].fields

\* C4: read_file fails with the unsupported-format error (400) exactly when
\* the lower-cased last extension of the filename is none of txt, docx, doc,
\* pdf, and a file with one of these four extensions is handed to a reader.
C4_FourExtensionsReachAReader ==
    (op = "read_file" /\ arg.filename # <<>> /\ HasDot(arg.filename)) =>
      LET known == LastSegment(Lower(arg.filename)) \in ReadableExtensions
      IN  /\ res.out = UnsupportedFormat <=> ~known
          /\ known => res.reader # ""

\* C5 (as claimed): for every encoding E of the list and every non-blank
\* string s encodable in E, _read_txt_file on s.encode(E) returns s; a buffer
\* that no encoding of the list can decode fails with the decode error.
C5_RoundTripEveryEncoding ==
    op = "_read_txt_file" =>
      /\ \A i \in 1..Len(Encodings), s \in Strings :
            ( /\ Strip(s) # <<>>
              /\ Encodable(Encodings[i], s)
              /\ Encode(Encodings[i], s) = arg.content ) => res = Ret(s)
      /\ (\A i \in 1..Len(Encodings) : ~Decode(Encodings[i], arg.content).ok)
             => res = DecodeError

\* The encodings of the list, by position, that read the buffer as non-blank
\* text.
Readable(content) ==
    {i \in 1..4 :
        LET d == Decode(<<"utf-8", "latin-1", "cp1252", "iso-8859-1">>[i], content)
        IN  d.ok /\ \E k \in 1..Len(d.text) : ~IsSpace(d.text[k])}

\* C5 (amended): _read_txt_file returns the buffer as read by the first
\* encoding of [utf-8, latin-1, cp1252, iso-8859-1] that decodes it to
\* non-blank text, and fails with the decode error exactly when no encoding
\* does.  So s.encode(utf-8) returns s for every non-blank s, while
\* s.encode(E) for a later E always returns text, and returns s exactly when
\* that first encoding, which is E or one before it, reads the bytes as s.
C5_FirstReadableEncoding ==
    op = "_read_txt_file" =>
      LET content == arg.content
          first   == SetMin(Readable(content))
      IN  /\ res = DecodeError <=> Readable(content) = {}
          /\ Readable(content) # {} =>
               res = Ret(Decode(Encodings[first], content).text)
          /\ \A s \in Strings :
               (Strip(s) # <<>> /\ Encode("utf-8", s) = content) => res = Ret(s)
          /\ \A i \in 2..4, s \in Strings :
               ( /\ Strip(s) # <<>>
                 /\ Encodable(Encodings[i], s)
                 /\ Encode(Encodings[i], s) = content ) =>
               /\ ~res.raised
               /\ first <= i
               /\ res = Ret(s) <=> Decode(Encodings[first], content).text = s

\* The ellipsis encoded in cp1252 (0x85): not UTF-8, blank as latin-1, and
\* returned as the ellipsis by the third encoding.
C5_Witness ==
    /\ op = "_read_txt_file"
    /\ arg.content = Encode("cp1252", <<8230>>)
    /\ arg.content = <<133>>
    /\ res = Ret(<<8230>>)

\* The texts of the non-empty pages, in page order, a newline between them.
RECURSIVE PagesJoined(_)
PagesJoined(pages) ==
    IF pages = <<>> THEN <<>>
    ELSE LET rest == PagesJoined(Tail(pages))
         IN  IF Len(Head(pages)) = 0 THEN rest
             ELSE IF \A k \in 2..Len(pages) : Len(pages[k]) = 0 THEN Head(pages)
             ELSE Head(pages) \o <<10>> \o rest

\* C6: for a PDF the parser reads, _read_pdf_file returns the texts of exactly
\* the pages whose text is not empty, in page order, joined by single
\* newlines; when no page has non-whitespace text it fails with an
\* empty-content error (400) and returns nothing.
C6_PdfJoinsNonEmptyPages ==
    (op = "_read_pdf_file" /\ arg.pdf.ok) =>
      LET pages   == arg.pdf.pages
          hasText == \E i \in 1..Len(pages) :
                        \E k \in 1..Len(pages[i]) : ~IsSpace(pages[i][k])
      IN  /\ hasText => res = Ret(PagesJoined(pages))
          /\ ~hasText => res \in PdfEmptyContent

C6_Witness ==
    /\ op = "_read_pdf_file"
    /\ arg.pdf.ok
    /\ arg.pdf.pages = <<<<97>>, <<>>, <<98>>>>
    /\ res = Ret(<<97, 10, 98>>)

AnswerText(q) ==
    CASE q.type \in {"Multiple Choice", "True/False"} -> <<q.correct_answer>>
      [] q.type = "Short Answer" -> <<"[Sample Answer] ", q.sample_answer>>
      [] q.type = "Essay"        -> <<"Not Applicable">>

\* C8: the ANSWER KEY section of create_file_stream holds exactly one line per
\* question, in the order of exam.questions, and the line of a question gives
\* its correct_answer (Multiple Choice, True/False), "[Sample Answer] " and
\* its sample_answer (Short Answer), or "Not Applicable" (Essay).
C8_AnswerKeyPerQuestion ==
    (op = "download_exam" /\ res.status = 200) =>
      LET lines   == res.lines
          qs      == arg.exam.questions
          heads   == {i \in 1..Len(lines) : lines[i] = <<"ANSWER KEY">>}
          head    == SetMin(heads)
          section == SubSeq(lines, head + 3, Len(lines))
      IN  /\ Cardinality(heads) = 1
          /\ Len(section) = Len(qs)
          /\ \A i \in 1..Len(qs) :
                section[i] = <<"Question ", ToString(qs[i].id), ": ">>
                             \o AnswerText(qs[i])

C8_Witness ==
    /\ op = "download_exam"
    /\ res.status = 200
    /\ Len(arg.exam.questions) = 2
    /\ arg.exam.questions[1].type = "Essay"
    /\ arg.exam.questions[1].id = 2
    /\ arg.exam.questions[2].type = "Short Answer"
    /\ arg.exam.questions[2].id = 1
    /\ SubSeq(res.lines, Len(res.lines) - 1, Len(res.lines))
         = << <<"Question ", "2", ": ", "Not Applicable">>,
              <<"Question ", "1", ": ", "[Sample Answer] ", "s">> >>

\* The option lines of the buffer, in the order they were written.
IsOptionLine(line) == Len(line) = 3 /\ line[2] = ". "

\* The options of the Multiple Choice questions, in the order of the exam.
RECURSIVE AllOptions(_)
AllOptions(qs) ==
    IF qs = <<>> THEN <<>>
    ELSE (IF Head(qs).type = "Multiple Choice" THEN Head(qs).options ELSE <<>>)
         \o AllOptions(Tail(qs))

\* The zero-based position of each option within its own question.
RECURSIVE AllOptionIndexes(_)
AllOptionIndexes(qs) ==
    IF qs = <<>> THEN <<>>
    ELSE (IF Head(qs).type = "Multiple Choice"
            THEN [k \in 1..Len(Head(qs).options) |-> k - 1] ELSE <<>>)
         \o AllOptionIndexes(Tail(qs))

\* C9 (as claimed): the options of a Multiple Choice question are rendered one
\* line each in original order, the option at index i labelled with the i-th
\* uppercase letter, and no option line carries a label beyond "Z.".
C9_LabelsCappedAtZ ==
    (op = "download_exam" /\ res.status = 200) =>
      LET written == SelectSeq(res.lines, IsOptionLine)
          options == AllOptions(arg.exam.questions)
          indexes == AllOptionIndexes(arg.exam.questions)
      IN  /\ \A k \in 1..Len(written) : IsUppercase(written[k][1])
          /\ \A k \in 1..Len(written) :
                (k <= Len(options) /\ indexes[k] < 26) =>
                   written[k] = <<UppercaseLetters[indexes[k] + 1], ". ",
                                  options[k]>>

\* C9 (amended): every option of a Multiple Choice question is rendered on a
\* line of its own, in original order, the option at index i labelled
\* chr(65 + i): the i-th uppercase letter for i < 26.  The labelling is not
\* capped: an option at index 26 or beyond is rendered too, labelled with the
\* ASCII character that many places after "A" ("[" at index 26), which is no
\* letter.
C9_LabelsByIndex ==
    (op = "download_exam" /\ res.status = 200) =>
      LET written == SelectSeq(res.lines, IsOptionLine)
          options == AllOptions(arg.exam.questions)
          indexes == AllOptionIndexes(arg.exam.questions)
      IN  /\ Len(written) = Len(options)
          /\ \A k \in 1..Len(options) :
                /\ written[k][3] = options[k]
                /\ indexes[k] < 26 =>
                     written[k][1] = UppercaseLetters[indexes[k] + 1]
                /\ indexes[k] >= 26 => ~IsUppercase(written[k][1])
                /\ indexes[k] = 26 => written[k][1] = "["

C9_Witness ==
    /\ op = "download_exam"
    /\ res.status = 200
    /\ Len(arg.exam.questions) = 1
    /\ Len(arg.exam.questions[1].options) = 27
    /\ \E k \in 1..Len(res.lines) :
          /\ res.lines[k] = <<"[", ". ", "0">>
          /\ res.lines[k - 1] = <<"Z", ". ", "1">>
          /\ res.lines[k - 26] = <<"A", ". ", "26">>

\* C10 (as claimed): read_file has closed the uploaded file whenever the call
\* ends, whether it returns text, rejects the input or fails while parsing.
C10_ClosedOnEveryPath == op = "read_file" => res.closed

\* C10 (amended): read_file has closed the uploaded file when the call ends by
\* returning text, by the unsupported-extension error or by a failure while
\* reading (every path through its try block); when it rejects an upload for
\* an empty filename or a filename without a dot it raises before the try
\* block and the file is left open.
C10_ClosedOncePastTheNameChecks ==
    op = "read_file" =>
      LET named == arg.filename # <<>>
          dotted == \E i \in 1..Len(arg.filename) : arg.filename[i] = 46
      IN  /\ (named /\ dotted) => res.closed
          /\ ~(named /\ dotted) =>
               /\ ~res.closed
               /\ res.out \in {Http(400, "No file provided"),
                               Http(400, "File must have an extension")}

C10_Witness ==
    /\ op = "read_file"
    /\ res.closed
    /\ res.out = Http(500, "Error processing file")
    /\ res.reader = "docx"

=============================================================================
